---------------------------- MODULE Spec2Model ----------------------------
(***************************************************************************)
(* rust_pac: the maze game (src/main.rs), its level editor                 *)
(* (src/bin/editor.rs) and the library both share (src/lib.rs).            *)
(*                                                                         *)
(* Conventions of the model                                                *)
(*  - A Vec<Vec<u8>> is a sequence of sequences; Rust index i is TLA+      *)
(*    index i + 1.                                                         *)
(*  - f32 pixel coordinates are modelled by the integers: every value is a *)
(*    whole number of pixels (all such values below 2^24 are exact f32     *)
(*    numbers, and sums and differences of them are computed exactly).     *)
(*    A Vec2 is a pair <<x, y>>, a Rect a record [x, y, w, h].             *)
(*  - The tick length dt is counted in units of 1/DtPerSecond seconds, so  *)
(*    that PLAYER_SPEED * dt is a whole number of pixels.                  *)
(*  - A str is a sequence of characters, each a one-element token; the     *)
(*    token "U+00E9" stands for a character whose UTF-8 form has 2 bytes.  *)
(***************************************************************************)
EXTENDS Integers, Sequences, FiniteSets, TLC

VARIABLES
    level_map,     \* GameState.level_map / EditorState.level_map
    display_map,   \* GameState.display_map / EditorState.display_map
    player,        \* GameState.player: [pos, direction, desired_direction]
    current_tool,  \* EditorState.current_tool
    mode,          \* EditorState.mode
    menu_options,  \* EditorState.menu_options: have the rects been laid out
    file,          \* the level file at EditorState.filepath
    content,       \* the &str handed to load_level_from_string
    call,          \* the last application of a library function and its result
    ev             \* the last event the game's handlers were given

vars == <<level_map, display_map, player, current_tool, mode, menu_options,
          file, content, call, ev>>

(***************************************************************************)
(* Constants (src/lib.rs:5-8, src/main.rs:11-14)                           *)
(***************************************************************************)
TILE_SIZE == 8
MAZE_OFFSET_Y == TILE_SIZE * 5
WALL_CODE_OFFSET == 100
PLAYER_SPEED == 40
U8 == 2^8

\* dt is counted in 1/DtPerSecond s; PLAYER_SPEED * dt is then in pixels.
DtPerSecond == PLAYER_SPEED \div 4

Direction == {"North", "East", "South", "West", "Stopped"}

\* The unused part of the state of a specification.
NoValue == "-"

(***************************************************************************)
(* Rust primitives                                                         *)
(***************************************************************************)
\* (a / b) as isize for b > 0: the f32 quotient, truncated toward zero.
DivAsIsize(a, b) == IF a >= 0 THEN a \div b ELSE -((-a) \div b)

\* u8 addition (no wrap occurs below 256).
AddU8(a, b) == (a + b) % U8

\* Vec::resize(n, v) of a sequence.
Resize(row, n, v) ==
    [i \in 1..n |-> IF i <= Len(row) THEN row[i] ELSE v]

\* Rect::new
RectNew(x, y, w, h) == [x |-> x, y |-> y, w |-> w, h |-> h]

\* The bounds check of an index expression on a Vec<Vec<u8>>: <<y>> is
\* map[y], <<y, x>> is map[y][x].  An expression out of range panics.
InRange(a, map) ==
    /\ a[1] >= 0 /\ a[1] < Len(map)
    /\ Len(a) = 2 => (a[2] >= 0 /\ a[2] < Len(map[a[1] + 1]))

\* All rows of map have equal length.
Rectangular(map) == \A r \in 1..Len(map) : Len(map[r]) = Len(map[1])

(***************************************************************************)
(* src/lib.rs                                                              *)
(***************************************************************************)
\* is_wall_at with the out-of-bounds default inverted (open instead of wall).
is_wall_at_open_outside(x, y, map) ==
    IF y < 0 \/ y >= Len(map)
    THEN FALSE
    ELSE LET row == map[y + 1]
         IN  IF x < 0 \/ x >= Len(row)
             THEN FALSE
             ELSE row[x + 1] = 1

is_wall_at(x, y, map) ==
    IF y < 0 \/ y >= Len(map)
    THEN TRUE
    ELSE LET row == map[y + 1]
         IN  IF x < 0 \/ x >= Len(row)
             THEN TRUE
             ELSE row[x + 1] = 1

\* The index expressions is_wall_at evaluates, with the column test left
\* out.
is_wall_at_reads_unchecked_column(x, y, map) ==
    IF y < 0 \/ y >= Len(map)
    THEN {}
    ELSE IF x < 0 THEN {<<y>>} ELSE {<<y>>, <<y, x>>}

\* The index expressions is_wall_at evaluates: <<y>> for map[y as usize],
\* <<y, x>> for row[x as usize] of that row.
is_wall_at_reads(x, y, map) ==
    IF y < 0 \/ y >= Len(map)
    THEN {}
    ELSE IF x < 0 \/ x >= Len(map[y + 1]) THEN {<<y>>} ELSE {<<y>>, <<y, x>>}

\* is_wall_at panics: one of its index expressions is out of range.
is_wall_at_panics(x, y, map) ==
    \E a \in is_wall_at_reads(x, y, map) : ~InRange(a, map)

is_tile_walkable(pixel_x, pixel_y, map) ==
    LET map_y == DivAsIsize(pixel_y - MAZE_OFFSET_Y, TILE_SIZE)
        map_x == DivAsIsize(pixel_x, TILE_SIZE)
    IN  ~is_wall_at(map_x, map_y, map)

\* is_rect_walkable without the inset of the right and bottom edges.
is_rect_walkable_no_inset(rect, map) ==
    LET right_edge == rect.x + rect.w
        bottom_edge == rect.y + rect.h
    IN  /\ is_tile_walkable(rect.x, rect.y, map)
        /\ is_tile_walkable(right_edge, rect.y, map)
        /\ is_tile_walkable(rect.x, bottom_edge, map)
        /\ is_tile_walkable(right_edge, bottom_edge, map)

is_rect_walkable(rect, map) ==
    LET right_edge == rect.x + rect.w - 1
        bottom_edge == rect.y + rect.h - 1
    IN  IF ~is_tile_walkable(rect.x, rect.y, map) THEN FALSE
        ELSE IF ~is_tile_walkable(right_edge, rect.y, map) THEN FALSE
        ELSE IF ~is_tile_walkable(rect.x, bottom_edge, map) THEN FALSE
        ELSE IF ~is_tile_walkable(right_edge, bottom_edge, map) THEN FALSE
        ELSE TRUE

(***************************************************************************)
(* src/lib.rs: level text                                                  *)
(***************************************************************************)
\* The number of bytes of the UTF-8 form of a character.
Utf8Len(c) == IF c = "U+00E9" THEN 2 ELSE 1

\* str::len: the length of a string in bytes.
RECURSIVE StrLen(_)
StrLen(s) == IF s = <<>> THEN 0 ELSE Utf8Len(Head(s)) + StrLen(Tail(s))

\* The index of the first "\n" of s, or 0.
FirstNewline(s) ==
    IF \E i \in 1..Len(s) : s[i] = "\n"
    THEN CHOOSE i \in 1..Len(s) :
            s[i] = "\n" /\ \A j \in 1..(i - 1) : s[j] # "\n"
    ELSE 0

\* A line that ended in "\n", less one "\r" before it.
StripCarriageReturn(line) ==
    IF Len(line) > 0 /\ line[Len(line)] = "\r"
    THEN SubSeq(line, 1, Len(line) - 1)
    ELSE line

\* str::lines: the text is cut after every "\n"; a piece that ends in "\n"
\* loses it and one "\r" before it; a last piece without "\n" is kept whole;
\* nothing follows a final "\n".
RECURSIVE Lines(_)
Lines(s) ==
    IF s = <<>> THEN <<>>
    ELSE LET i == FirstNewline(s)
         IN  IF i = 0 THEN <<s>>
             ELSE <<StripCarriageReturn(SubSeq(s, 1, i - 1))>>
                    \o Lines(SubSeq(s, i + 1, Len(s)))

\* The match of load_level_from_string with '.' read as an empty tile.
CharToTile_dot_empty(c) ==
    CASE c = "#" -> 1
      [] c = "o" -> 3
      [] OTHER   -> 0

\* The match of load_level_from_string.
CharToTile(c) ==
    CASE c = "#" -> 1
      [] c = "." -> 2
      [] c = "o" -> 3
      [] OTHER   -> 0

\* max_width of load_level_from_string: the greatest len() of a line, or 0.
MaxWidth(lines) ==
    IF lines = <<>> THEN 0
    ELSE CHOOSE w \in { StrLen(lines[i]) : i \in 1..Len(lines) } :
            \A i \in 1..Len(lines) : StrLen(lines[i]) <= w

\* load_level_from_string without the resize of the rows.
load_level_from_string_no_padding(text) ==
    LET lines == Lines(text)
    IN  [i \in 1..Len(lines) |->
            [j \in 1..Len(lines[i]) |-> CharToTile(lines[i][j])]]

load_level_from_string(text) ==
    LET lines == Lines(text)
        max_width == MaxWidth(lines)
    IN  [i \in 1..Len(lines) |->
            Resize([j \in 1..Len(lines[i]) |-> CharToTile(lines[i][j])],
                   max_width, 0)]

\* The match of save_level_to_string.
TileToChar(cell) ==
    CASE cell = 1 -> "#"
      [] cell = 2 -> "."
      [] cell = 3 -> "o"
      [] OTHER    -> " "

\* join("\n") of a vector of strings.
RECURSIVE Join(_)
Join(rows) ==
    IF rows = <<>> THEN <<>>
    ELSE IF Len(rows) = 1 THEN rows[1]
    ELSE rows[1] \o <<"\n">> \o Join(Tail(rows))

save_level_to_string(map) ==
    Join([r \in 1..Len(map) |->
            [c \in 1..Len(map[r]) |-> TileToChar(map[r][c])]])

(***************************************************************************)
(* Level text parsed, written and parsed again                             *)
(***************************************************************************)
MaxContentLen == 4
Chars == {"#", ".", "o", " ", "x", "\n", "\r", "U+00E9"}

Texts == UNION { [1..n -> Chars] : n \in 0..MaxContentLen }

\* The three-line level text "#.#", "...", "#o#".
ThreeLineText ==
    <<"#", ".", "#", "\n", ".", ".", ".", "\n", "#", "o", "#">>

LevelInit ==
    /\ content \in Texts \cup {ThreeLineText}
    /\ level_map = NoValue
    /\ display_map = NoValue
    /\ player = NoValue
    /\ current_tool = NoValue
    /\ mode = NoValue
    /\ menu_options = NoValue
    /\ file = NoValue
    /\ call = [fn |-> "none"]
    /\ ev = NoValue

LevelUnchanged ==
    UNCHANGED <<display_map, player, current_tool, mode, menu_options, file,
                content, ev>>

\* level_map = load_level_from_string(content)
LevelLoad ==
    /\ call.fn = "none"
    /\ level_map' = load_level_from_string(content)
    /\ call' = [fn |-> "load_level_from_string"]
    /\ LevelUnchanged

\* save_level_to_string(level_map)
LevelSave ==
    /\ call.fn = "load_level_from_string"
    /\ call' = [fn |-> "save_level_to_string",
                result |-> save_level_to_string(level_map)]
    /\ UNCHANGED level_map
    /\ LevelUnchanged

\* load_level_from_string(save_level_to_string(level_map))
LevelReload ==
    /\ call.fn = "save_level_to_string"
    /\ call' = [fn |-> "reload",
                saved |-> call.result,
                result |-> load_level_from_string(call.result)]
    /\ UNCHANGED level_map
    /\ LevelUnchanged

LevelNext ==
    \/ LevelLoad
    \/ LevelSave
    \/ LevelReload

LevelSpec == LevelInit /\ [][LevelNext]_vars

(***************************************************************************)
(* src/main.rs: the game                                                   *)
(***************************************************************************)
\* The literal level of GameState::new.
BuiltinLevel ==
    <<
       <<1,1,1,1,1,1,1,1,1,1,1,1,1,1,1,1,1,1,1,1,1,1,1,1,1,1,1,1>>,
       <<1,3,2,2,2,2,2,2,2,2,2,2,2,1,1,2,2,2,2,2,2,2,2,2,2,2,3,1>>,
       <<1,2,1,1,1,1,2,1,1,1,1,1,2,1,1,2,1,1,1,1,1,2,1,1,1,1,2,1>>,
       <<1,2,1,0,0,1,2,1,0,0,0,1,2,1,1,2,1,0,0,0,1,2,1,0,0,1,2,1>>,
       <<1,2,1,1,1,1,2,1,1,1,1,1,2,1,1,2,1,1,1,1,1,2,1,1,1,1,2,1>>,
       <<1,2,2,2,2,2,2,2,2,2,2,2,2,2,2,2,2,2,2,2,2,2,2,2,2,2,2,1>>,
       <<1,2,1,1,1,1,2,1,1,2,1,1,1,1,1,1,1,1,2,1,1,2,1,1,1,1,2,1>>,
       <<1,2,2,2,2,2,2,1,1,2,2,2,2,1,1,2,2,2,2,1,1,2,2,2,2,2,2,1>>,
       <<1,1,1,1,1,1,2,1,1,1,1,1,0,1,1,0,1,1,1,1,1,2,1,1,1,1,1,1>>,
       <<1,0,0,0,0,1,2,1,1,0,0,0,0,0,0,0,0,0,0,1,1,2,1,0,0,0,0,1>>,
       <<1,0,0,0,0,1,2,1,1,0,1,1,1,0,0,1,1,1,0,1,1,2,1,0,0,0,0,1>>,
       <<1,1,1,1,1,1,2,1,1,0,1,0,0,0,0,0,0,1,0,1,1,2,1,1,1,1,1,1>>,
       <<0,0,0,0,0,0,2,0,0,0,1,0,0,0,0,0,0,1,0,0,0,2,0,0,0,0,0,0>>,
       <<1,1,1,1,1,1,2,1,1,0,1,1,1,1,1,1,1,1,0,1,1,2,1,1,1,1,1,1>>,
       <<1,0,0,0,0,1,2,1,1,0,0,0,0,0,0,0,0,0,0,1,1,2,1,0,0,0,0,1>>,
       <<1,0,0,0,0,1,2,1,1,0,1,1,1,1,1,1,1,1,0,1,1,2,1,0,0,0,0,1>>,
       <<1,1,1,1,1,1,2,1,1,0,1,1,1,1,1,1,1,1,0,1,1,2,1,1,1,1,1,1>>,
       <<1,3,2,2,2,2,2,2,2,2,2,2,2,1,1,2,2,2,2,2,2,2,2,2,2,2,3,1>>,
       <<1,2,1,1,1,1,2,1,1,1,1,1,2,1,1,2,1,1,1,1,1,2,1,1,1,1,2,1>>,
       <<1,2,2,2,1,1,2,2,2,2,2,2,2,0,0,2,2,2,2,2,2,2,1,1,2,2,2,1>>,
       <<1,1,1,2,1,1,2,1,1,2,1,1,1,1,1,1,1,1,2,1,1,2,1,1,2,1,1,1>>,
       <<1,2,2,2,2,2,2,1,1,2,2,2,2,1,1,2,2,2,2,1,1,2,2,2,2,2,2,1>>,
       <<1,2,1,1,1,1,1,1,1,1,1,1,2,1,1,2,1,1,1,1,1,1,1,1,1,1,2,1>>,
       <<1,2,2,2,2,2,2,2,2,2,2,2,2,2,2,2,2,2,2,2,2,2,2,2,2,2,2,1>>,
       <<1,1,1,1,1,1,1,1,1,1,1,1,1,1,1,1,1,1,1,1,1,1,1,1,1,1,1,1>>
    >>

\* is_wall_at of src/main.rs that takes every tile but the empty one for a wall.
game_is_wall_at_nonzero(x, y, map) ==
    IF y < 0 \/ y >= Len(map) \/ x < 0 \/ x >= Len(map[1])
    THEN TRUE
    ELSE map[y + 1][x + 1] # 0

\* fn is_wall_at of src/main.rs (the bounds of every row are those of row 0);
\* its value where it does not panic, see game_is_wall_at_panics.
game_is_wall_at(x, y, map) ==
    IF y < 0 \/ y >= Len(map) \/ x < 0 \/ x >= Len(map[1])
    THEN TRUE
    ELSE map[y + 1][x + 1] = 1

\* The index expressions is_wall_at of src/main.rs evaluates: <<0>> for
\* map[0] once y is in range and x is not negative (the || chain stops at
\* its first true operand), <<y, x>> for map[y as usize][x as usize].
game_is_wall_at_reads(x, y, map) ==
    IF y < 0 \/ y >= Len(map) \/ x < 0
    THEN {}
    ELSE IF x >= Len(map[1]) THEN {<<0>>} ELSE {<<0>>, <<y, x>>}

\* is_wall_at of src/main.rs panics: x is inside row 0 and outside row y.
game_is_wall_at_panics(x, y, map) ==
    \E a \in game_is_wall_at_reads(x, y, map) : ~InRange(a, map)

game_is_tile_walkable(pixel_x, pixel_y, map) ==
    LET map_y == DivAsIsize(pixel_y - MAZE_OFFSET_Y, TILE_SIZE)
        map_x == DivAsIsize(pixel_x, TILE_SIZE)
    IN  ~game_is_wall_at(map_x, map_y, map)

game_is_rect_walkable(rect, map) ==
    LET right_edge == rect.x + rect.w - 1
        bottom_edge == rect.y + rect.h - 1
    IN  IF ~game_is_tile_walkable(rect.x, rect.y, map) THEN FALSE
        ELSE IF ~game_is_tile_walkable(right_edge, rect.y, map) THEN FALSE
        ELSE IF ~game_is_tile_walkable(rect.x, bottom_edge, map) THEN FALSE
        ELSE IF ~game_is_tile_walkable(right_edge, bottom_edge, map) THEN FALSE
        ELSE TRUE

\* The wall mask of cell (x, y), as GameState::new accumulates it.
game_wall_mask(x, y, map) ==
    LET m1 == IF game_is_wall_at(x, y - 1, map) THEN AddU8(0, 1) ELSE 0
        m2 == IF game_is_wall_at(x, y + 1, map) THEN AddU8(m1, 2) ELSE m1
        m3 == IF game_is_wall_at(x - 1, y, map) THEN AddU8(m2, 4) ELSE m2
        m4 == IF game_is_wall_at(x + 1, y, map) THEN AddU8(m3, 8) ELSE m3
    IN  m4

\* The display_map GameState::new derives from level_map.
game_display_map(map) ==
    [r \in 1..Len(map) |->
        [c \in 1..Len(map[r]) |->
            IF map[r][c] = 1
            THEN AddU8(game_wall_mask(c - 1, r - 1, map), WALL_CODE_OFFSET)
            ELSE map[r][c]]]

\* start_pos of GameState::new: (13.5 * TILE_SIZE, 23.5 * TILE_SIZE + MAZE_OFFSET_Y).
start_pos ==
    <<(135 * TILE_SIZE) \div 10, ((235 * TILE_SIZE) \div 10) + MAZE_OFFSET_Y>>

\* A Player that starts out moving west.
NewPlayer_moving ==
    [pos |-> start_pos, direction |-> "West", desired_direction |-> "West"]

\* The Player of GameState::new.
NewPlayer ==
    [pos |-> start_pos, direction |-> "Stopped", desired_direction |-> "Stopped"]

\* pos moved by PLAYER_SPEED * dt in direction dir (the match of update).
Moved(pos, dir, dt) ==
    LET step == (PLAYER_SPEED * dt) \div DtPerSecond
    IN  CASE dir = "North" -> <<pos[1], pos[2] - step>>
          [] dir = "South" -> <<pos[1], pos[2] + step>>
          [] dir = "West"  -> <<pos[1] - step, pos[2]>>
          [] dir = "East"  -> <<pos[1] + step, pos[2]>>
          [] OTHER         -> pos

\* The tile-sized rectangle centred on pos.
PlayerRect(pos) ==
    RectNew(pos[1] - (TILE_SIZE \div 2), pos[2] - (TILE_SIZE \div 2),
            TILE_SIZE, TILE_SIZE)

\* update that turns the player round at an obstruction instead of stopping.
update_bounce(p, map, dt) ==
    LET pos_if_desired == Moved(p.pos, p.desired_direction, dt)
        desired_move_possible ==
            game_is_rect_walkable(PlayerRect(pos_if_desired), map)
        direction ==
            IF p.desired_direction # "Stopped" /\ desired_move_possible
            THEN p.desired_direction
            ELSE p.direction
        next_pos == Moved(p.pos, direction, dt)
        back == CASE direction = "North" -> "South"
                  [] direction = "South" -> "North"
                  [] direction = "West"  -> "East"
                  [] direction = "East"  -> "West"
                  [] OTHER               -> "Stopped"
    IN  IF game_is_rect_walkable(PlayerRect(next_pos), map)
        THEN [p EXCEPT !.pos = next_pos, !.direction = direction]
        ELSE [p EXCEPT !.direction = back]

\* update without the walkability test of the next position.
update_no_collision(p, map, dt) ==
    LET pos_if_desired == Moved(p.pos, p.desired_direction, dt)
        desired_move_possible ==
            game_is_rect_walkable(PlayerRect(pos_if_desired), map)
        direction ==
            IF p.desired_direction # "Stopped" /\ desired_move_possible
            THEN p.desired_direction
            ELSE p.direction
    IN  [p EXCEPT !.pos = Moved(p.pos, direction, dt), !.direction = direction]

\* update that takes up the desired direction only when the player is Stopped.
update_turn_when_stopped(p, map, dt) ==
    LET pos_if_desired == Moved(p.pos, p.desired_direction, dt)
        desired_move_possible ==
            game_is_rect_walkable(PlayerRect(pos_if_desired), map)
        direction ==
            IF /\ p.desired_direction # "Stopped"
               /\ desired_move_possible
               /\ p.direction = "Stopped"
            THEN p.desired_direction
            ELSE p.direction
        next_pos == Moved(p.pos, direction, dt)
    IN  IF game_is_rect_walkable(PlayerRect(next_pos), map)
        THEN [p EXCEPT !.pos = next_pos, !.direction = direction]
        ELSE [p EXCEPT !.direction = "Stopped"]

\* update that moves the player up to the obstruction instead of leaving it.
update_clamp(p, map, dt) ==
    LET pos_if_desired == Moved(p.pos, p.desired_direction, dt)
        desired_move_possible ==
            game_is_rect_walkable(PlayerRect(pos_if_desired), map)
        direction ==
            IF p.desired_direction # "Stopped" /\ desired_move_possible
            THEN p.desired_direction
            ELSE p.direction
        next_pos == Moved(p.pos, direction, dt)
        free == { d \in 0..dt :
                    game_is_rect_walkable(PlayerRect(Moved(p.pos, direction, d)), map) }
        reach == CHOOSE d \in free : \A e \in free : e <= d
    IN  IF game_is_rect_walkable(PlayerRect(next_pos), map)
        THEN [p EXCEPT !.pos = next_pos, !.direction = direction]
        ELSE [p EXCEPT !.pos = Moved(p.pos, direction, reach),
                       !.direction = "Stopped"]

\* GameState::update: the player after a tick of length dt on map.
update(p, map, dt) ==
    LET pos_if_desired == Moved(p.pos, p.desired_direction, dt)
        desired_move_possible ==
            game_is_rect_walkable(PlayerRect(pos_if_desired), map)
        direction ==
            IF p.desired_direction # "Stopped" /\ desired_move_possible
            THEN p.desired_direction
            ELSE p.direction
        next_pos == Moved(p.pos, direction, dt)
    IN  IF game_is_rect_walkable(PlayerRect(next_pos), map)
        THEN [p EXCEPT !.pos = next_pos, !.direction = direction]
        ELSE [p EXCEPT !.direction = "Stopped"]

\* GameState::key_down_event: the desired direction after a key.
key_down_event(p, keycode) ==
    CASE keycode = "Up"    -> [p EXCEPT !.desired_direction = "North"]
      [] keycode = "Down"  -> [p EXCEPT !.desired_direction = "South"]
      [] keycode = "Left"  -> [p EXCEPT !.desired_direction = "West"]
      [] keycode = "Right" -> [p EXCEPT !.desired_direction = "East"]
      [] OTHER             -> p

\* The tile under pixel (x, y), as is_tile_walkable computes it.
TileUnder(pos) ==
    <<DivAsIsize(pos[1], TILE_SIZE), DivAsIsize(pos[2] - MAZE_OFFSET_Y, TILE_SIZE)>>

\* A tick that also empties the tile under the player, in both maps.
game_update_eats_pellets(lm, dm, p, dt) ==
    LET after == update(p, lm, dt)
        col == TileUnder(after.pos)[1]
        row == TileUnder(after.pos)[2]
    IN  [level_map |-> [lm EXCEPT ![row + 1][col + 1] = 0],
         display_map |-> [dm EXCEPT ![row + 1][col + 1] = 0],
         player |-> after]

\* EventHandler::update of GameState, on all of the state: the maps are
\* read and the player is written.
game_update(lm, dm, p, dt) ==
    [level_map |-> lm, display_map |-> dm, player |-> update(p, lm, dt)]

\* EventHandler::key_down_event of GameState, on all of the state.
game_key_down_event(lm, dm, p, keycode) ==
    [level_map |-> lm, display_map |-> dm,
     player |-> key_down_event(p, keycode)]

\* The tick lengths and keys the game is driven with.
MaxDt == 4
Dts == 0..MaxDt
GameKeys == {"Up", "Down", "Left", "Right", "Other"}

GameInit ==
    /\ level_map = BuiltinLevel
    /\ display_map = game_display_map(BuiltinLevel)
    /\ player = NewPlayer
    /\ current_tool = NoValue
    /\ mode = NoValue
    /\ menu_options = NoValue
    /\ file = NoValue
    /\ content = NoValue
    /\ call = NoValue
    /\ ev = [kind |-> "new"]

GameUpdate(dt) ==
    /\ LET after == game_update(level_map, display_map, player, dt)
       IN  /\ level_map' = after.level_map
           /\ display_map' = after.display_map
           /\ player' = after.player
    /\ ev' = [kind |-> "update", dt |-> dt,
              \* the tick turned a moving player into another direction
              turned |-> /\ player.direction # "Stopped"
                         /\ player'.direction \notin {"Stopped", player.direction}]
    /\ UNCHANGED <<current_tool, mode, menu_options, file, content, call>>

GameKeyDown(keycode) ==
    /\ LET after == game_key_down_event(level_map, display_map, player, keycode)
       IN  /\ level_map' = after.level_map
           /\ display_map' = after.display_map
           /\ player' = after.player
    /\ ev' = [kind |-> "key_down"]
    /\ UNCHANGED <<current_tool, mode, menu_options, file, content, call>>

GameNext ==
    \/ \E dt \in Dts : GameUpdate(dt)
    \/ \E keycode \in GameKeys : GameKeyDown(keycode)

GameSpec == GameInit /\ [][GameNext]_vars

(***************************************************************************)
(* src/bin/editor.rs: the display map                                      *)
(***************************************************************************)
\* The wall mask of cell (x, y), as update_display_map accumulates it.
wall_mask(x, y, map) ==
    LET m1 == IF is_wall_at(x, y - 1, map) THEN AddU8(0, 1) ELSE 0
        m2 == IF is_wall_at(x, y + 1, map) THEN AddU8(m1, 2) ELSE m1
        m3 == IF is_wall_at(x - 1, y, map) THEN AddU8(m2, 4) ELSE m2
        m4 == IF is_wall_at(x + 1, y, map) THEN AddU8(m3, 8) ELSE m3
    IN  m4

\* update_display_map with the west and east bits exchanged.
update_display_map_west_east(map) ==
    [r \in 1..Len(map) |->
        [c \in 1..Len(map[r]) |->
            IF map[r][c] = 1
            THEN AddU8(wall_mask(c - 1, r - 1, map)
                         + (IF is_wall_at(c - 2, r - 1, map) THEN 4 ELSE 0)
                         - (IF is_wall_at(c, r - 1, map) THEN 4 ELSE 0),
                       WALL_CODE_OFFSET)
            ELSE map[r][c]]]

\* The index expressions update_display_map evaluates: those of its four
\* is_wall_at calls and display_map[y][x] of the clone, for every wall.
update_display_map_reads(map) ==
    UNION { is_wall_at_reads(xy[1], xy[2] - 1, map)
              \cup is_wall_at_reads(xy[1], xy[2] + 1, map)
              \cup is_wall_at_reads(xy[1] - 1, xy[2], map)
              \cup is_wall_at_reads(xy[1] + 1, xy[2], map)
              \cup {<<xy[2], xy[1]>>} :
            xy \in UNION { { <<c - 1, r - 1>> :
                                c \in { k \in 1..Len(map[r]) : map[r][k] = 1 } } :
                           r \in 1..Len(map) } }

\* update_display_map without the pass over the walls: the clone alone.
update_display_map_raw(map) == map

\* EditorState::update_display_map: the display_map derived from level_map.
update_display_map(map) ==
    [r \in 1..Len(map) |->
        [c \in 1..Len(map[r]) |->
            IF map[r][c] = 1
            THEN AddU8(wall_mask(c - 1, r - 1, map), WALL_CODE_OFFSET)
            ELSE map[r][c]]]

(***************************************************************************)
(* src/bin/editor.rs: the editor                                           *)
(*                                                                         *)
(* The level file is [status |-> "ok", content |-> text], or has status    *)
(* "missing" (ctx.fs.open fails) or "unreadable" (read_to_string fails).   *)
(* save_level writes the file that Load Level reads.                       *)
(* The pointer position is in whole window pixels; update_menu and         *)
(* update_editor divide it by MOUSE_SCALE.                                 *)
(***************************************************************************)
MOUSE_SCALE == 3
MAP_OFFSET_X == 112
DEFAULT_ROWS == 31
DEFAULT_COLS == 28

create_default_map == [r \in 1..DEFAULT_ROWS |-> [c \in 1..DEFAULT_COLS |-> 0]]

\* The level_map of EditorState::new and of Load Level, when the file reads.
FileReads(f) == f.status = "ok"

\* EditorState::new: the level_map from the file, or the default map.
new_level_map(f) ==
    IF FileReads(f) THEN load_level_from_string(f.content)
    ELSE create_default_map

\* The column and row update_editor computes from the pointer position:
\* ((mouse.x / 3.0 - 112.0) / TILE_SIZE) as isize, which is the quotient
\* (mouse.x - 3 * 112) / (3 * TILE_SIZE) truncated toward zero.
MouseMapX(mouse) ==
    DivAsIsize(mouse[1] - MOUSE_SCALE * MAP_OFFSET_X, MOUSE_SCALE * TILE_SIZE)
MouseMapY(mouse) ==
    DivAsIsize(mouse[2] - MOUSE_SCALE * MAZE_OFFSET_Y, MOUSE_SCALE * TILE_SIZE)

\* The index expressions update_editor evaluates on level_map:
\* level_map[0] for its len(), level_map[y][x] for the comparison and the
\* write.
update_editor_reads(lm, tool, pressed, mouse) ==
    LET map_x == MouseMapX(mouse)
        map_y == MouseMapY(mouse)
    IN  IF ~pressed THEN {}
        ELSE IF ~(map_x >= 0 /\ map_y >= 0) THEN {}
        ELSE IF ~(map_y < Len(lm)) THEN {}
        ELSE IF ~(map_x < Len(lm[1])) THEN {<<0>>}
        ELSE {<<0>>, <<map_y, map_x>>}

\* update_editor that writes one column to the right of the tested cell.
update_editor_next_column(lm, dm, tool, pressed, mouse) ==
    LET map_x == MouseMapX(mouse)
        map_y == MouseMapY(mouse)
        same == [level_map |-> lm, display_map |-> dm]
    IN  IF ~pressed THEN same
        ELSE IF ~(map_x >= 0 /\ map_y >= 0) THEN same
        ELSE IF ~(map_y < Len(lm) /\ map_x + 1 < Len(lm[1])) THEN same
        ELSE IF lm[map_y + 1][map_x + 1] = tool THEN same
        ELSE LET painted == [lm EXCEPT ![map_y + 1][map_x + 2] = tool]
             IN  [level_map |-> painted,
                  display_map |-> update_display_map(painted)]

\* update_editor that paints the cell and leaves display_map as it was.
update_editor_stale_display(lm, dm, tool, pressed, mouse) ==
    LET map_x == MouseMapX(mouse)
        map_y == MouseMapY(mouse)
        same == [level_map |-> lm, display_map |-> dm]
    IN  IF ~pressed THEN same
        ELSE IF ~(map_x >= 0 /\ map_y >= 0) THEN same
        ELSE IF ~(map_y < Len(lm) /\ map_x < Len(lm[1])) THEN same
        ELSE [level_map |-> [lm EXCEPT ![map_y + 1][map_x + 1] = tool],
              display_map |-> dm]

\* EditorState::update_editor: level_map and display_map after the step.
update_editor(lm, dm, tool, pressed, mouse) ==
    LET map_x == MouseMapX(mouse)
        map_y == MouseMapY(mouse)
        same == [level_map |-> lm, display_map |-> dm]
    IN  IF ~pressed THEN same
        ELSE IF ~(map_x >= 0 /\ map_y >= 0) THEN same
        ELSE IF ~(map_y < Len(lm) /\ map_x < Len(lm[1])) THEN same
        ELSE IF lm[map_y + 1][map_x + 1] = tool THEN same
        ELSE LET painted == [lm EXCEPT ![map_y + 1][map_x + 1] = tool]
             IN  [level_map |-> painted,
                  display_map |-> update_display_map(painted)]

\* An Option<usize>: None is <<>>, Some(i) is <<i>>.
None == <<>>
Some(i) == <<i>>

\* clicked_index: the first menu option whose rect contains the pointer.
\* Before draw_menu has run every rect is Rect(0, 0, 0, 0), which contains
\* the point (0, 0) alone; afterwards the rects depend on the measured text,
\* and `over` is the option the pointer is over, if any.
ClickedIndex(options, mouse, over) ==
    IF options = "zero"
    THEN IF mouse = <<0, 0>> THEN Some(0) ELSE None
    ELSE over

\* EditorState::save_level: the file it leaves.  When File::create fails the
\* old file f stays; otherwise the file holds the first `written` bytes of
\* the text of the map: write_all writes in a loop, a failure leaves what
\* was written before it, and its result is discarded.  The text is ASCII,
\* so a byte is a character.
save_level(lm, f, created, written) ==
    IF ~created
    THEN f
    ELSE [status |-> "ok",
          content |-> SubSeq(save_level_to_string(lm), 1, written)]

\* What save_level can leave in the file: the old file, or any prefix of
\* the text of the map, all of it when every write succeeds.
SaveOutcomes(lm, f) ==
    { save_level(lm, f, created, written) :
        created \in BOOLEAN, written \in 0..Len(save_level_to_string(lm)) }

\* The saves the editor is driven with: File::create fails; the write fails
\* within the first MaxWritten bytes; the write succeeds.
MaxWritten == 3
WrittenLengths(lm) ==
    LET len == Len(save_level_to_string(lm))
    IN  (0..(IF len < MaxWritten THEN len ELSE MaxWritten)) \cup {len}
SaveInputs(lm) ==
    { [created |-> FALSE, written |-> 0] }
      \cup { [created |-> TRUE, written |-> n] : n \in WrittenLengths(lm) }

\* update_menu whose Save Level arm goes on to Editing mode as well.
update_menu_save_resumes(lm, dm, md, f, clicked) ==
    CASE clicked = Some(0) ->
            [level_map |-> create_default_map,
             display_map |-> update_display_map(create_default_map),
             mode |-> "Editing"]
      [] clicked = Some(1) ->
            IF FileReads(f)
            THEN [level_map |-> load_level_from_string(f.content),
                  display_map |->
                      update_display_map(load_level_from_string(f.content)),
                  mode |-> "Editing"]
            ELSE [level_map |-> lm, display_map |-> dm, mode |-> "Editing"]
      [] clicked \in {Some(2), Some(3)} ->
            [level_map |-> lm, display_map |-> dm, mode |-> "Editing"]
      [] OTHER ->
            [level_map |-> lm, display_map |-> dm, mode |-> md]

\* EditorState::update_menu for the clicked option: level_map, display_map
\* and mode after the step.
update_menu(lm, dm, md, f, clicked) ==
    CASE clicked = Some(0) ->
            [level_map |-> create_default_map,
             display_map |-> update_display_map(create_default_map),
             mode |-> "Editing"]
      [] clicked = Some(1) ->
            IF FileReads(f)
            THEN [level_map |-> load_level_from_string(f.content),
                  display_map |->
                      update_display_map(load_level_from_string(f.content)),
                  mode |-> "Editing"]
            ELSE [level_map |-> lm, display_map |-> dm, mode |-> "Editing"]
      [] clicked = Some(3) ->
            [level_map |-> lm, display_map |-> dm, mode |-> "Editing"]
      [] OTHER ->
            [level_map |-> lm, display_map |-> dm, mode |-> md]

\* key_down_editor whose arm for Key0 and Grave clears the map as well.
key_down_editor_key0_clears(lm, dm, tool, md, keycode) ==
    LET same == [level_map |-> lm, display_map |-> dm,
                 current_tool |-> tool, mode |-> md]
    IN  CASE keycode = "Key1" -> [same EXCEPT !.current_tool = 1]
          [] keycode = "Key2" -> [same EXCEPT !.current_tool = 2]
          [] keycode = "Key3" -> [same EXCEPT !.current_tool = 3]
          [] keycode \in {"Key0", "Grave", "C"} ->
                [same EXCEPT !.current_tool =
                                 IF keycode = "C" THEN tool ELSE 0,
                             !.level_map = create_default_map,
                             !.display_map =
                                 update_display_map(create_default_map)]
          [] keycode = "Escape" -> [same EXCEPT !.mode = "Menu"]
          [] OTHER -> same

\* key_down_editor whose arm for Key3 selects a tool past the big dot.
key_down_editor_key3_off_by_one(lm, dm, tool, md, keycode) ==
    LET same == [level_map |-> lm, display_map |-> dm,
                 current_tool |-> tool, mode |-> md]
    IN  CASE keycode = "Key1" -> [same EXCEPT !.current_tool = 1]
          [] keycode = "Key2" -> [same EXCEPT !.current_tool = 2]
          [] keycode = "Key3" -> [same EXCEPT !.current_tool = 4]
          [] keycode \in {"Key0", "Grave"} -> [same EXCEPT !.current_tool = 0]
          [] keycode = "C" ->
                [same EXCEPT !.level_map = create_default_map,
                             !.display_map =
                                 update_display_map(create_default_map)]
          [] keycode = "Escape" -> [same EXCEPT !.mode = "Menu"]
          [] OTHER -> same

\* EditorState::key_down_editor: the state a key leaves, but for the file.
key_down_editor(lm, dm, tool, md, keycode) ==
    LET same == [level_map |-> lm, display_map |-> dm,
                 current_tool |-> tool, mode |-> md]
    IN  CASE keycode = "Key1" -> [same EXCEPT !.current_tool = 1]
          [] keycode = "Key2" -> [same EXCEPT !.current_tool = 2]
          [] keycode = "Key3" -> [same EXCEPT !.current_tool = 3]
          [] keycode \in {"Key0", "Grave"} -> [same EXCEPT !.current_tool = 0]
          [] keycode = "C" ->
                [same EXCEPT !.level_map = create_default_map,
                             !.display_map =
                                 update_display_map(create_default_map)]
          [] keycode = "Escape" -> [same EXCEPT !.mode = "Menu"]
          [] OTHER -> same

\* The inputs the editor is driven with.
EditorKeys ==
    {"Key1", "Key2", "Key3", "Key0", "Grave", "S", "C", "Escape", "Other"}

\* The pointer at offset o inside the drawn square of cell (c, r).
CellPoint(c, r, o) ==
    <<MOUSE_SCALE * (MAP_OFFSET_X + c * TILE_SIZE + o),
      MOUSE_SCALE * (MAZE_OFFSET_Y + r * TILE_SIZE + o)>>

\* The window origin; the middle of cell (0, 0); half a tile left of the
\* map and half a tile above it; past the last row and column of the default
\* map.
MousePoints ==
    { <<0, 0>>,
      CellPoint(0, 0, 4),
      CellPoint(-1, 0, 4), CellPoint(0, -1, 4),
      CellPoint(DEFAULT_COLS, DEFAULT_ROWS, 4) }

MenuOver == {None, Some(0), Some(1), Some(2), Some(3)}

\* The level files the editor is started with.
EditorFiles ==
    { [status |-> "missing"],
      [status |-> "unreadable"],
      [status |-> "ok", content |-> <<>>],
      [status |-> "ok", content |-> <<"\n">>],
      [status |-> "ok", content |-> <<"#", "#", "\n", ".", "o">>],
      [status |-> "ok", content |-> <<"#", "\n", ".", "o">>] }

EditorInit ==
    /\ file \in EditorFiles
    /\ level_map = new_level_map(file)
    /\ display_map = update_display_map(new_level_map(file))
    /\ current_tool = 1
    /\ mode = "Menu"
    /\ menu_options = "zero"
    /\ player = NoValue
    /\ content = NoValue
    /\ call = NoValue
    /\ ev = NoValue

\* EventHandler::update in Menu mode.
EditorUpdateMenu(pressed, mouse, over) ==
    /\ mode = "Menu"
    /\ LET clicked == IF pressed THEN ClickedIndex(menu_options, mouse, over)
                      ELSE None
           after == update_menu(level_map, display_map, mode, file, clicked)
       IN  /\ level_map' = after.level_map
           /\ display_map' = after.display_map
           /\ mode' = after.mode
           /\ IF clicked = Some(2)
              THEN \E sv \in SaveInputs(level_map) :
                       file' = save_level(level_map, file,
                                          sv.created, sv.written)
              ELSE file' = file
    /\ UNCHANGED <<player, current_tool, menu_options, content, call, ev>>

\* EventHandler::update in Editing mode.
EditorUpdateEditor(pressed, mouse) ==
    /\ mode = "Editing"
    /\ LET after == update_editor(level_map, display_map, current_tool,
                                  pressed, mouse)
       IN  /\ level_map' = after.level_map
           /\ display_map' = after.display_map
    /\ UNCHANGED <<player, current_tool, mode, menu_options, file, content,
                   call, ev>>

\* EventHandler::draw: draw_menu lays the menu rects out; draw_editor
\* changes nothing.
EditorDraw ==
    /\ mode \in {"Menu", "Editing"}
    /\ menu_options' = IF mode = "Menu" THEN "laid out" ELSE menu_options
    /\ UNCHANGED <<level_map, display_map, player, current_tool, mode, file,
                   content, call, ev>>

\* EventHandler::key_down_event.
EditorKeyDown(keycode) ==
    /\ mode \in {"Menu", "Editing"}
    /\ IF mode = "Menu"
       THEN /\ mode' = IF keycode = "Escape" THEN "Editing" ELSE mode
            /\ UNCHANGED <<level_map, display_map, current_tool, file>>
       ELSE LET after == key_down_editor(level_map, display_map,
                                         current_tool, mode, keycode)
            IN  /\ level_map' = after.level_map
                /\ display_map' = after.display_map
                /\ current_tool' = after.current_tool
                /\ mode' = after.mode
                /\ IF keycode = "S"
                   THEN \E sv \in SaveInputs(level_map) :
                            file' = save_level(level_map, file,
                                               sv.created, sv.written)
                   ELSE file' = file
    /\ UNCHANGED <<player, menu_options, content, call, ev>>

\* The pointer inputs of an update step, one for each way the step can go:
\* update_menu reads the position only against the menu rects, and neither
\* step reads it while the button is up.
MenuInputs(options) ==
    { [pressed |-> FALSE, mouse |-> <<0, 0>>, over |-> None] }
      \cup IF options = "zero"
           THEN { [pressed |-> TRUE, mouse |-> m, over |-> None] :
                    m \in {<<0, 0>>, CellPoint(0, 0, 4)} }
           ELSE { [pressed |-> TRUE, mouse |-> CellPoint(0, 0, 4), over |-> o] :
                    o \in MenuOver }

EditorInputs ==
    { [pressed |-> FALSE, mouse |-> <<0, 0>>] }
      \cup { [pressed |-> TRUE, mouse |-> m] : m \in MousePoints }

EditorNext ==
    \/ \E in \in MenuInputs(menu_options) :
          EditorUpdateMenu(in.pressed, in.mouse, in.over)
    \/ \E in \in EditorInputs : EditorUpdateEditor(in.pressed, in.mouse)
    \/ EditorDraw
    \/ \E keycode \in EditorKeys : EditorKeyDown(keycode)

EditorSpec == EditorInit /\ [][EditorNext]_vars

(***************************************************************************)
(* The library functions applied to bounded inputs                         *)
(*                                                                         *)
(* The grid is drawn from every rectangular grid of at most ExhaustiveDim  *)
(* rows and columns whose cells are walls or one non-wall code, from every *)
(* grid of two rows of different lengths up to ExhaustiveDim, and from     *)
(* every window of at most WindowDim rows and columns of the built-in      *)
(* level.  Each action applies one function to the grid at every input of  *)
(* a bounded set and records the results in call, with the inputs at which *)
(* the function panics.  The functions of src/main.rs built on its         *)
(* is_wall_at are applied to the grids with rows of equal length, as the   *)
(* game applies them; on other grids they panic where is_wall_at does.     *)
(***************************************************************************)
ExhaustiveDim == 2
WindowDim == 3

NonWallTiles == {0, 2, 3}

SmallGrids ==
    UNION { [1..r -> [1..c -> {1, f}]] :
                <<r, c, f>> \in (0..ExhaustiveDim) \X (0..ExhaustiveDim) \X NonWallTiles }

Window(i, j, r, c) ==
    [y \in 1..r |-> [x \in 1..c |-> BuiltinLevel[i + y][j + x]]]

LevelWindows ==
    UNION { { Window(i, j, r, c) :
                <<i, j>> \in (0..(Len(BuiltinLevel) - r)) \X (0..(Len(BuiltinLevel[1]) - c)) } :
            <<r, c>> \in (0..WindowDim) \X (0..WindowDim) }

\* The grids of two rows of different lengths.
RaggedGrids ==
    UNION { { <<top, bottom>> : top \in [1..t[1] -> {1, t[3]}],
                                bottom \in [1..t[2] -> {1, t[3]}] } :
            t \in { u \in (0..ExhaustiveDim) \X (0..ExhaustiveDim) \X NonWallTiles :
                      u[1] # u[2] } }

Grids == SmallGrids \cup LevelWindows \cup RaggedGrids

\* Tile coordinates around and inside the largest grid.
Coords == (-2)..(WindowDim + 1)

\* Pixel coordinates: three points of every tile from one tile before the
\* grid to one tile after it.
PixelXs == { t * TILE_SIZE + o : <<t, o>> \in ((-1)..WindowDim) \X {0, 4, 7} }
PixelYs == { x + MAZE_OFFSET_Y : x \in PixelXs }

\* Rectangles: tile-sized and larger, at whole and half tile positions.
RectXs == { t * TILE_SIZE + o : <<t, o>> \in ((-1)..WindowDim) \X {0, 4} }
Rects ==
    { RectNew(x, y + MAZE_OFFSET_Y, w, w) :
        <<x, y, w>> \in RectXs \X RectXs \X {TILE_SIZE, TILE_SIZE + 4} }

LibInit ==
    /\ level_map \in Grids
    /\ display_map = NoValue
    /\ player = NoValue
    /\ current_tool = NoValue
    /\ mode = NoValue
    /\ menu_options = NoValue
    /\ file = NoValue
    /\ content = NoValue
    /\ call = [fn |-> "none"]
    /\ ev = NoValue

LibUnchanged ==
    UNCHANGED <<level_map, player, current_tool, mode, menu_options, file,
                content, ev>>

CallIsWallAt ==
    /\ call.fn = "none"
    /\ LET panics == { a \in Coords \X Coords :
                          is_wall_at_panics(a[1], a[2], level_map) }
       IN  call' = [fn |-> "is_wall_at",
                    panics |-> panics,
                    result |-> [a \in (Coords \X Coords) \ panics |->
                                   is_wall_at(a[1], a[2], level_map)]]
    /\ UNCHANGED display_map
    /\ LibUnchanged

CallGameIsWallAt ==
    /\ call.fn = "none"
    /\ LET panics == { a \in Coords \X Coords :
                          game_is_wall_at_panics(a[1], a[2], level_map) }
       IN  call' = [fn |-> "main::is_wall_at",
                    panics |-> panics,
                    result |-> [a \in (Coords \X Coords) \ panics |->
                                   game_is_wall_at(a[1], a[2], level_map)]]
    /\ UNCHANGED display_map
    /\ LibUnchanged

CallIsTileWalkable ==
    /\ call.fn = "none"
    /\ call' = [fn |-> "is_tile_walkable",
                result |-> [a \in PixelXs \X PixelYs |->
                               is_tile_walkable(a[1], a[2], level_map)]]
    /\ UNCHANGED display_map
    /\ LibUnchanged

CallGameIsTileWalkable ==
    /\ call.fn = "none"
    /\ Rectangular(level_map)
    /\ call' = [fn |-> "main::is_tile_walkable",
                result |-> [a \in PixelXs \X PixelYs |->
                               game_is_tile_walkable(a[1], a[2], level_map)]]
    /\ UNCHANGED display_map
    /\ LibUnchanged

CallIsRectWalkable ==
    /\ call.fn = "none"
    /\ call' = [fn |-> "is_rect_walkable",
                result |-> [rect \in Rects |-> is_rect_walkable(rect, level_map)]]
    /\ UNCHANGED display_map
    /\ LibUnchanged

CallGameIsRectWalkable ==
    /\ call.fn = "none"
    /\ Rectangular(level_map)
    /\ call' = [fn |-> "main::is_rect_walkable",
                result |-> [rect \in Rects |->
                               game_is_rect_walkable(rect, level_map)]]
    /\ UNCHANGED display_map
    /\ LibUnchanged

CallUpdateDisplayMap ==
    /\ call.fn = "none"
    /\ call' = [fn |-> "update_display_map"]
    /\ display_map' = update_display_map(level_map)
    /\ LibUnchanged

CallGameDisplayMap ==
    /\ call.fn = "none"
    /\ Rectangular(level_map)
    /\ call' = [fn |-> "main::display_map"]
    /\ display_map' = game_display_map(level_map)
    /\ LibUnchanged

LibNext ==
    \/ CallIsWallAt
    \/ CallGameIsWallAt
    \/ CallIsTileWalkable
    \/ CallGameIsTileWalkable
    \/ CallIsRectWalkable
    \/ CallGameIsRectWalkable
    \/ CallUpdateDisplayMap
    \/ CallGameDisplayMap

LibSpec == LibInit /\ [][LibNext]_vars

(***************************************************************************)
(* The two programs: the game and the editor, each from its initial state. *)
(* The game is driven here with ticks of the length that moves the player  *)
(* by one tile, and with every key.                                        *)
(***************************************************************************)
TileDt == (TILE_SIZE * DtPerSecond) \div PLAYER_SPEED

ProgramsInit == GameInit \/ EditorInit

ProgramsNext ==
    \/ mode = NoValue /\ GameUpdate(TileDt)
    \/ mode = NoValue /\ \E keycode \in GameKeys : GameKeyDown(keycode)
    \/ mode # NoValue /\ EditorNext

ProgramsSpec == ProgramsInit /\ [][ProgramsNext]_vars

(***************************************************************************)
(* Claims about the game                                                   *)
(***************************************************************************)
\* C1: after any ticks and key events from the game's initial state, the
\* tile-sized bounding box centred on the player's committed position passes
\* is_rect_walkable against level_map (the spawn position included).
C1_CommittedPositionWalkable ==
    game_is_rect_walkable(PlayerRect(player.pos), level_map)

\* A tick has committed a move away from the spawn position.
C1_Witness ==
    /\ ev.kind = "update"
    /\ ev.dt > 0
    /\ player.direction # "Stopped"
    /\ player.pos # start_pos

\* The direction in which a tick of length dt tries to move the player p:
\* the desired direction when it is set and unobstructed, else the actual one.
DirectionTried(p, map, dt) ==
    IF /\ p.desired_direction # "Stopped"
       /\ game_is_rect_walkable(
              PlayerRect(Moved(p.pos, p.desired_direction, dt)), map)
    THEN p.desired_direction
    ELSE p.direction

\* C7: in any tick where desired_direction is not Stopped and the bounding
\* box one step in desired_direction is walkable, the actual direction
\* becomes desired_direction in that tick and the position advances one step
\* in it, whatever the direction the player was moving in.
C7_TurnBuffering ==
    [][ ( /\ ev'.kind = "update"
          /\ player.desired_direction # "Stopped"
          /\ game_is_rect_walkable(
                 PlayerRect(Moved(player.pos, player.desired_direction, ev'.dt)),
                 level_map) )
        => ( /\ player'.direction = player.desired_direction
             /\ player'.pos =
                    Moved(player.pos, player.desired_direction, ev'.dt)
             /\ player'.desired_direction = player.desired_direction ) ]_vars

\* A tick of positive length has turned a moving player into its desired
\* direction, perpendicular to the one it was moving in.
C7_Witness ==
    /\ ev.kind = "update"
    /\ ev.dt > 0
    /\ ev.turned
    /\ player.direction = "North"
    /\ player.desired_direction = "North"
    /\ player.pos[2] < start_pos[2]

\* C8: in any tick where the bounding box one step in the (possibly just
\* updated) actual direction is not walkable, the position is unchanged and
\* the actual direction becomes Stopped; where it is walkable, the position
\* becomes the stepped position and the direction is kept.
C8_HaltOnObstruction ==
    [][ ev'.kind = "update" =>
        LET direction == DirectionTried(player, level_map, ev'.dt)
            next_pos == Moved(player.pos, direction, ev'.dt)
        IN  IF game_is_rect_walkable(PlayerRect(next_pos), level_map)
            THEN player'.pos = next_pos /\ player'.direction = direction
            ELSE player'.pos = player.pos /\ player'.direction = "Stopped" ]_vars

\* A tick has stopped a moving player short of an obstruction: the player
\* is Stopped, wants to go on, and stands off the tile grid, away from the
\* wall it would hit.
C8_Witness ==
    /\ ev.kind = "update"
    /\ ev.dt > 1
    /\ player.direction = "Stopped"
    /\ player.desired_direction = "West"
    /\ (player.pos[1] - (TILE_SIZE \div 2)) % TILE_SIZE # 0
    /\ game_is_rect_walkable(PlayerRect(Moved(player.pos, "West", 1)), level_map)
    /\ ~game_is_rect_walkable(PlayerRect(Moved(player.pos, "West", ev.dt)), level_map)

(***************************************************************************)
(* Claims about the grid functions                                         *)
(***************************************************************************)
\* (col, row) lies inside the grid.
InGrid(col, row, map) ==
    /\ row >= 0 /\ row < Len(map)
    /\ col >= 0 /\ col < Len(map[row + 1])

\* is_wall_at has answered at coordinate a as the contract says: true
\* outside the grid (negative, row >= number of rows, col >= row width) and,
\* inside it, true exactly when the stored tile is Wall (1).
AnswersByContract(a) ==
    /\ a \notin call.panics
    /\ IF InGrid(a[1], a[2], level_map)
       THEN call.result[a] = (level_map[a[2] + 1][a[1] + 1] = 1)
       ELSE call.result[a] = TRUE

\* C2 (as claimed): for every grid, rows of different lengths included, and
\* every coordinate, is_wall_at of src/lib.rs and is_wall_at of src/main.rs
\* return true outside the grid (negative, row >= number of rows, col >= row
\* width) and, inside it, true exactly when the stored tile is Wall (1).
C2_IsWallAtAsClaimed ==
    call.fn \in {"is_wall_at", "main::is_wall_at"} =>
        \A a \in Coords \X Coords : AnswersByContract(a)

\* (col, row) lies inside the bounds is_wall_at of src/main.rs tests: those
\* of the rows and of row 0.
InFirstRowBounds(col, row, map) ==
    /\ row >= 0 /\ row < Len(map)
    /\ col >= 0 /\ col < Len(map[1])

\* C2: is_wall_at of src/lib.rs answers by the contract on every grid, and
\* is_wall_at of src/main.rs on every grid whose rows have equal length.  On
\* a grid with rows of different lengths is_wall_at of src/main.rs bounds
\* every row by the width of row 0: it returns true outside those bounds,
\* answers by the tile inside them where the row holds the column, and
\* indexes out of range where the row is shorter.
C2_IsWallAt ==
    /\ call.fn = "is_wall_at" =>
          \A a \in Coords \X Coords : AnswersByContract(a)
    /\ (call.fn = "main::is_wall_at" /\ Rectangular(level_map)) =>
          \A a \in Coords \X Coords : AnswersByContract(a)
    /\ (call.fn = "main::is_wall_at" /\ ~Rectangular(level_map)) =>
          \A a \in Coords \X Coords :
              IF ~InFirstRowBounds(a[1], a[2], level_map)
              THEN a \notin call.panics /\ call.result[a] = TRUE
              ELSE IF InGrid(a[1], a[2], level_map)
              THEN AnswersByContract(a)
              ELSE a \in call.panics

\* is_wall_at of src/lib.rs has answered on a grid whose second row is longer
\* than its first: true outside the grid, and by the tile for a wall and for
\* a non-wall of the second row beyond the width of the first.
C2_Witness ==
    /\ call.fn = "is_wall_at"
    /\ Len(level_map) = 2
    /\ Len(level_map[1]) = 0
    /\ Len(level_map[2]) = 2
    /\ call.result[<<-1, 0>>] /\ call.result[<<0, 2>>] /\ call.result[<<0, 0>>]
    /\ level_map[2][1] = 1 /\ call.result[<<0, 1>>]
    /\ level_map[2][2] # 1 /\ ~call.result[<<1, 1>>]

\* The cell at 1-based (r, c) is a wall or lies outside the grid.
WallOrOutside(map, r, c) ==
    \/ r < 1 \/ r > Len(map)
    \/ c < 1 \/ c > Len(map[r])
    \/ map[r][c] = 1

\* The 4-bit neighbour mask of the specification: +1 north, +2 south,
\* +4 west, +8 east.
NeighbourMask(map, r, c) ==
      (IF WallOrOutside(map, r - 1, c) THEN 1 ELSE 0)
    + (IF WallOrOutside(map, r + 1, c) THEN 2 ELSE 0)
    + (IF WallOrOutside(map, r, c - 1) THEN 4 ELSE 0)
    + (IF WallOrOutside(map, r, c + 1) THEN 8 ELSE 0)

\* d is the wall-adjacency encoding of the rectangular grid g.
IsEncodingOf(d, g) ==
    /\ Len(d) = Len(g)
    /\ \A r \in 1..Len(g) :
        /\ Len(d[r]) = Len(g[r])
        /\ \A c \in 1..Len(g[r]) :
            IF g[r][c] = 1
            THEN d[r][c] = 100 + NeighbourMask(g, r, c)
            ELSE d[r][c] = g[r][c]

\* C3: the derived display grid has the dimensions of the grid; a Wall cell
\* becomes 100 + mask (+1 north, +2 south, +4 west, +8 east wall neighbour,
\* outside counting as wall), a non-wall cell is copied; a wall whose only
\* wall neighbours are north and east becomes 109.
C3_DisplayEncoding ==
    call.fn \in {"update_display_map", "main::display_map"} =>
        /\ IsEncodingOf(display_map, level_map)
        /\ \A r \in 1..Len(level_map) : \A c \in 1..Len(level_map[r]) :
            ( /\ level_map[r][c] = 1
              /\ WallOrOutside(level_map, r - 1, c)
              /\ WallOrOutside(level_map, r, c + 1)
              /\ ~WallOrOutside(level_map, r + 1, c)
              /\ ~WallOrOutside(level_map, r, c - 1) )
            => display_map[r][c] = 109

\* update_display_map has encoded a wall whose north and east neighbours are
\* walls of the grid and whose south and west neighbours are non-walls of the
\* grid, next to a non-wall cell it copied.
C3_Witness ==
    /\ call.fn = "update_display_map"
    /\ Len(level_map) = 3
    /\ Len(level_map[1]) = 3
    /\ level_map[2][2] = 1
    /\ level_map[1][2] = 1 /\ level_map[2][3] = 1
    /\ level_map[3][2] \in NonWallTiles /\ level_map[2][1] \in NonWallTiles
    /\ display_map[2][2] = 109
    /\ display_map[2][1] = level_map[2][1]

\* C5 (as claimed): is_tile_walkable(x, y) is true iff
\* is_wall_at(floor(x / 8), floor((y - 40) / 8)) is false, also for negative x
\* and for y below MAZE_OFFSET_Y.
C5_FloorPixelToTile ==
    call.fn \in {"is_tile_walkable", "main::is_tile_walkable"} =>
        \A a \in PixelXs \X PixelYs :
            call.result[a] =
                ~is_wall_at(a[1] \div 8, (a[2] - 40) \div 8, level_map)

\* C6: is_rect_walkable is true iff the four inset corners (left, top),
\* (right - 1, top), (left, bottom - 1), (right - 1, bottom - 1) are all
\* walkable, and false when any of them is on a wall tile or outside.
C6_RectFourCorners ==
    call.fn \in {"is_rect_walkable", "main::is_rect_walkable"} =>
        \A rect \in Rects :
            LET left == rect.x
                top == rect.y
                right == rect.x + rect.w
                bottom == rect.y + rect.h
            IN  call.result[rect] =
                    ( /\ is_tile_walkable(left, top, level_map)
                      /\ is_tile_walkable(right - 1, top, level_map)
                      /\ is_tile_walkable(left, bottom - 1, level_map)
                      /\ is_tile_walkable(right - 1, bottom - 1, level_map) )

\* is_rect_walkable has accepted one rectangle and rejected another whose
\* only unwalkable corner is the bottom right one, which the uninset corner
\* would not separate.
C6_Witness ==
    /\ call.fn = "is_rect_walkable"
    /\ \E rect \in Rects : call.result[rect]
    /\ \E rect \in Rects :
        /\ ~call.result[rect]
        /\ is_tile_walkable(rect.x, rect.y, level_map)
        /\ is_tile_walkable(rect.x + rect.w - 1, rect.y, level_map)
        /\ is_tile_walkable(rect.x, rect.y + rect.h - 1, level_map)
        /\ ~is_tile_walkable(rect.x + rect.w - 1, rect.y + rect.h - 1, level_map)

(***************************************************************************)
(* Claims about level text                                                 *)
(***************************************************************************)
\* C4 (as claimed): for every grid g that load_level_from_string produces
\* from some text, grids with zero rows or zero-width rows included,
\* load_level_from_string(save_level_to_string(g)) = g.
C4_RoundTrip ==
    call.fn = "reload" => call.result = level_map

\* The number of lines of a text: one for every "\n", and one more for a
\* non-empty rest after the last of them.
NumLines(text) ==
    Cardinality({ i \in 1..Len(text) : text[i] = "\n" })
      + (IF text # <<>> /\ text[Len(text)] # "\n" THEN 1 ELSE 0)

\* The number of characters of the longest line of a text, or 0.
LongestLine(lines) ==
    IF lines = <<>> THEN 0
    ELSE CHOOSE w \in { Len(lines[i]) : i \in 1..Len(lines) } :
            \A i \in 1..Len(lines) : Len(lines[i]) <= w

\* C10 (as claimed): for every text, load_level_from_string yields one row
\* per line, maps '#' to 1, '.' to 2, 'o' to 3 and every other character to
\* 0, and pads every row with 0 so that all rows have the length of the
\* longest line; no input is rejected.
C10_Parse ==
    call.fn = "load_level_from_string" =>
        LET lines == Lines(content)
            longest == LongestLine(lines)
        IN  /\ Len(level_map) = NumLines(content)
            /\ Len(level_map) = Len(lines)
            /\ \A i \in 1..Len(lines) :
                /\ Len(level_map[i]) = longest
                /\ \A j \in 1..longest :
                    level_map[i][j] =
                        IF j > Len(lines[i]) THEN 0
                        ELSE IF lines[i][j] = "#" THEN 1
                        ELSE IF lines[i][j] = "." THEN 2
                        ELSE IF lines[i][j] = "o" THEN 3
                        ELSE 0

\* C11 (as claimed): parsing the three-line text "#.#", "...", "#o#" yields
\* the tiles [[1,2,1],[0,0,0],[1,3,1]].
C11_ParseScenarioAsClaimed ==
    (call.fn = "load_level_from_string" /\ content = ThreeLineText)
        => level_map = <<<<1, 2, 1>>, <<0, 0, 0>>, <<1, 3, 1>>>>

\* C11 (amended): parsing the three-line text "#.#", "...", "#o#" yields the
\* tiles [[1,2,1],[2,2,2],[1,3,1]]: every '.' is a small pellet, in the
\* middle line as in the first.
C11_ParseScenario ==
    (call.fn = "load_level_from_string" /\ content = ThreeLineText)
        => level_map = <<<<1, 2, 1>>, <<2, 2, 2>>, <<1, 3, 1>>>>

\* The three-line text has been parsed into three rows of three tiles.
C11_Witness ==
    /\ call.fn = "load_level_from_string"
    /\ content = ThreeLineText
    /\ Len(level_map) = 3
    /\ \A r \in 1..3 : Len(level_map[r]) = 3

(***************************************************************************)
(* Claims about the editor                                                 *)
(***************************************************************************)
\* C9: in every reachable state of the editor (after construction and after
\* any menu clicks, pointer painting, tool keys, Clear and Escape) and of the
\* game, display_map is the wall-adjacency encoding of the current level_map.
C9_DisplayCacheConsistent ==
    IsEncodingOf(display_map, level_map)

\* The editor has loaded the level "##" / ".o" and painted its wall (0, 0)
\* over with a small pellet; the display code of the wall next to it has
\* lost its west bit.
C9_Witness ==
    /\ mode = "Editing"
    /\ level_map = <<<<2, 1>>, <<2, 3>>>>
    /\ display_map = <<<<2, 109>>, <<2, 3>>>>

\* A step of update_menu in which Load Level is clicked.
LoadLevelClicked ==
    \E in \in MenuInputs(menu_options) :
        /\ in.pressed
        /\ ClickedIndex(menu_options, in.mouse, in.over) = Some(1)
        /\ EditorUpdateMenu(in.pressed, in.mouse, in.over)

\* C12 (as claimed): whenever the editor loads a level, at startup or by the
\* menu's Load Level, and the level file is missing or cannot be read, the
\* resulting grid is the default blank map.
C12_LoadFallsBackToDefault ==
    /\ ~FileReads(file) => level_map = create_default_map
    /\ [][(LoadLevelClicked /\ ~FileReads(file))
            => level_map' = create_default_map]_vars

(***************************************************************************)
(* Further claims about the game                                           *)
(***************************************************************************)
\* The tile that holds pixel (x, y), by floor division.
FloorTile(x, y) == <<x \div TILE_SIZE, (y - MAZE_OFFSET_Y) \div TILE_SIZE>>

\* C13 (as claimed): after any sequence of ticks and key events on the
\* built-in level, every inset corner of the player's bounding box lies at a
\* pixel whose tile by floor division is inside the grid; so the left edge
\* is >= 0 and the top edge is >= MAZE_OFFSET_Y.
C13_PlayerStaysInGrid ==
    LET rect == PlayerRect(player.pos)
        corners == { <<rect.x, rect.y>>,
                     <<rect.x + rect.w - 1, rect.y>>,
                     <<rect.x, rect.y + rect.h - 1>>,
                     <<rect.x + rect.w - 1, rect.y + rect.h - 1>> }
    IN  /\ \A p \in corners :
            InGrid(FloorTile(p[1], p[2])[1], FloorTile(p[1], p[2])[2], level_map)
        /\ rect.x >= 0
        /\ rect.y >= MAZE_OFFSET_Y

(***************************************************************************)
(* Further claims about the display map                                    *)
(***************************************************************************)
\* The wall mask the program computes for cell (x, y) of its level_map.
MaskOfProgram(x, y) ==
    IF mode = NoValue THEN game_wall_mask(x, y, level_map)
    ELSE wall_mask(x, y, level_map)

\* C14: every cell of every reachable display_map, of the editor and of the
\* game, is 0, 2, 3 or a code in 100..115, never the logical wall code 1;
\* for every wall code, code - 100 is in 0..15, an index of the 16 wall
\* images; and mask + 100 does not exceed the range of u8.
C14_DisplayCodes ==
    \A r \in 1..Len(display_map) : \A c \in 1..Len(display_map[r]) :
        LET code == display_map[r][c]
        IN  /\ code \in {0, 2, 3} \cup (WALL_CODE_OFFSET..115)
            /\ code # 1
            /\ code >= WALL_CODE_OFFSET =>
                /\ code - WALL_CODE_OFFSET \in 0..15
                /\ MaskOfProgram(c - 1, r - 1) + WALL_CODE_OFFSET < U8
                /\ MaskOfProgram(c - 1, r - 1) + WALL_CODE_OFFSET = code

\* The editor shows the default map with a wall painted at (0, 0): its code
\* is 105, for the grid ends north and west of it.
C14_Witness ==
    /\ mode = "Editing"
    /\ Len(level_map) = DEFAULT_ROWS
    /\ level_map[1][1] = 1
    /\ display_map[1][1] = 105
    /\ display_map[1][2] = 0

(***************************************************************************)
(* The game's handlers on a walled room                                    *)
(*                                                                         *)
(* GameState::update and key_down_event applied to a grid of five rows and *)
(* columns whose border is Wall and whose interior is Empty.  The player   *)
(* starts at the centre tile with desired direction North; every tick of a *)
(* behaviour has the same length call.dt > 0; call.keyed records that a    *)
(* key event has occurred.                                                 *)
(***************************************************************************)
RoomGrid ==
    [r \in 1..5 |-> [c \in 1..5 |-> IF r \in {1, 5} \/ c \in {1, 5} THEN 1 ELSE 0]]

\* The centre of tile (2, 2).
RoomCentre ==
    <<2 * TILE_SIZE + (TILE_SIZE \div 2),
      2 * TILE_SIZE + (TILE_SIZE \div 2) + MAZE_OFFSET_Y>>

RoomInit ==
    /\ level_map = RoomGrid
    /\ display_map = game_display_map(RoomGrid)
    /\ \E d \in {"Stopped", "North"} :
          player = [pos |-> RoomCentre, direction |-> d,
                    desired_direction |-> "North"]
    /\ \E dt \in 1..MaxDt : call = [fn |-> "room", dt |-> dt, keyed |-> FALSE]
    /\ ev = [kind |-> "new"]
    /\ current_tool = NoValue
    /\ mode = NoValue
    /\ menu_options = NoValue
    /\ file = NoValue
    /\ content = NoValue

\* GameState::update with the tick length of the behaviour.
RoomUpdate == GameUpdate(call.dt)

\* GameState::key_down_event.
RoomKeyDown(keycode) ==
    /\ LET after == game_key_down_event(level_map, display_map, player, keycode)
       IN  /\ level_map' = after.level_map
           /\ display_map' = after.display_map
           /\ player' = after.player
    /\ ev' = [kind |-> "key_down"]
    /\ call' = [call EXCEPT !.keyed = TRUE]
    /\ UNCHANGED <<current_tool, mode, menu_options, file, content>>

RoomNext ==
    \/ RoomUpdate
    \/ \E keycode \in GameKeys : RoomKeyDown(keycode)

RoomSpec == RoomInit /\ [][RoomNext]_vars

\* C15: on the 5x5 grid with a Wall border and an Empty interior, a player
\* that starts at the centre tile with desired direction North and is given
\* ticks of one positive length (and no key) moves north by one step in
\* every tick whose stepped bounding box has its top edge below the border
\* row; in the first tick whose stepped box would have its top edge in the
\* border row (or above it) the position is kept and the direction becomes
\* Stopped, and in every later tick the player stays where it is, Stopped.
C15_HaltsAtBorderRow ==
    [][ (~call.keyed /\ ~call'.keyed /\ ev'.kind = "update") =>
        LET stepped == Moved(player.pos, "North", call.dt)
            top == PlayerRect(stepped).y
        IN  /\ IF top < MAZE_OFFSET_Y + TILE_SIZE
               THEN player'.pos = player.pos /\ player'.direction = "Stopped"
               ELSE player'.pos = stepped /\ player'.direction = "North"
            /\ (ev.kind = "update" /\ player.direction = "Stopped")
                  => player' = player ]_vars

\* Without a key, the player has moved north twice by 4 pixels and has then
\* been halted with the top edge of its box on the border row's lower edge.
C15_Witness ==
    /\ call.fn = "room"
    /\ ~call.keyed
    /\ call.dt = 1
    /\ ev.kind = "update"
    /\ player.direction = "Stopped"
    /\ player.pos = <<RoomCentre[1], RoomCentre[2] - TILE_SIZE>>

(***************************************************************************)
(* Further claims about the editor                                         *)
(***************************************************************************)
\* An update step of the editor taken while the left button is pressed.
PressedUpdateStep ==
    \/ \E in \in MenuInputs(menu_options) :
          in.pressed /\ EditorUpdateMenu(in.pressed, in.mouse, in.over)
    \/ \E in \in EditorInputs :
          in.pressed /\ EditorUpdateEditor(in.pressed, in.mouse)

\* C16 (as claimed): in the editor, level_map and display_map change only
\* during an update step in which the left mouse button is pressed; no
\* keyboard event ever changes them.
C16_MapsChangeOnlyOnPressedUpdate ==
    [][ /\ <<level_map, display_map>>' # <<level_map, display_map>>
            => PressedUpdateStep
        /\ \A keycode \in EditorKeys :
            EditorKeyDown(keycode) => UNCHANGED <<level_map, display_map>> ]_vars

\* C16 (amended): in the editor, level_map and display_map change only
\* during an update step in which the left mouse button is pressed, or by
\* the key C in Editing mode, which replaces level_map by the default map
\* and display_map by its encoding; no other keyboard event changes them.
C16_MapsChangeOnPressedUpdateOrClear ==
    [][ /\ <<level_map, display_map>>' # <<level_map, display_map>>
            => \/ PressedUpdateStep
               \/ /\ mode = "Editing"
                  /\ EditorKeyDown("C")
                  /\ level_map' = create_default_map
                  /\ display_map' = update_display_map(create_default_map)
        /\ \A keycode \in EditorKeys \ {"C"} :
            EditorKeyDown(keycode) => UNCHANGED <<level_map, display_map>>
        /\ (mode = "Menu" /\ EditorKeyDown("C"))
            => UNCHANGED <<level_map, display_map>> ]_vars

\* The level "##" / ".o" was loaded, a tool key has chosen the small pellet,
\* and the grid has since been replaced by the default map.
C16_Witness ==
    /\ mode = "Editing"
    /\ current_tool = 2
    /\ FileReads(file)
    /\ file.content = <<"#", "#", "\n", ".", "o">>
    /\ level_map = create_default_map

\* The pointer over the middle of every cell from two cells before the grid
\* to two cells after it, and the points the editor is driven with.
PointerPositions(map) ==
    MousePoints \cup
    { CellPoint(c, r, TILE_SIZE \div 2) :
        c \in (-2)..(DEFAULT_COLS + 1), r \in (-2)..(Len(map) + 1) }

\* C17: in every reachable state of the editor, also after loading a level
\* text that yields zero rows or zero-width rows, every index expression
\* that pointer painting (at any pointer position), the recomputation of
\* the display map, and is_wall_at (at any coordinate from two cells outside
\* the grid) evaluates is in range of the grid.
C17_Totality ==
    /\ \A mouse \in PointerPositions(level_map) :
        \A a \in update_editor_reads(level_map, current_tool, TRUE, mouse) :
            InRange(a, level_map)
    /\ \A a \in update_display_map_reads(level_map) :
        InRange(a, level_map) /\ InRange(a, display_map)
    /\ \A x \in (-2)..(DEFAULT_COLS + 1) : \A y \in (-2)..(Len(level_map) + 1) :
        \A a \in is_wall_at_reads(x, y, level_map) : InRange(a, level_map)

\* The editor is in Editing mode on the grid of one zero-width row, loaded
\* from the text of one empty line, with the big pellet as its tool.
C17_Witness ==
    /\ mode = "Editing"
    /\ current_tool = 3
    /\ level_map = <<<<>>>>
    /\ display_map = <<<<>>>>

\* The pointer over the middle of the cells around the corners of the grid.
PaintPoints(map) ==
    LET width == IF map = <<>> THEN 0 ELSE Len(map[1])
    IN  { CellPoint(c, r, TILE_SIZE \div 2) :
            c \in {-1, 0, 1, width - 1, width},
            r \in {-1, 0, 1, Len(map) - 1, Len(map)} }

\* The grid after is the grid lm with the cell computed from the pointer set
\* to tool, when that cell is in bounds, and lm itself otherwise.
PaintedAsClaimed(lm, tool, mouse, after) ==
    LET col == MouseMapX(mouse)
        row == MouseMapY(mouse)
    IN  IF InGrid(col, row, lm)
        THEN /\ Len(after) = Len(lm)
             /\ \A r \in 1..Len(lm) :
                 /\ Len(after[r]) = Len(lm[r])
                 /\ \A c \in 1..Len(lm[r]) :
                     after[r][c] = IF r = row + 1 /\ c = col + 1 THEN tool
                                   ELSE lm[r][c]
        ELSE after = lm

\* C18: an update step of the editor with the button pressed whose computed
\* (col, row) is in bounds sets exactly that cell to current_tool and leaves
\* every other cell and the dimensions of the grid unchanged; one whose
\* computed (col, row) is out of bounds changes nothing; painting the same
\* cell twice with the same tool gives what painting it once gives.
C18_SingleCellPaint ==
    /\ [](mode \in {"Menu", "Editing"} =>
            \A mouse \in PaintPoints(level_map) \cup MousePoints :
                LET once == update_editor(level_map, display_map,
                                          current_tool, TRUE, mouse)
                    twice == update_editor(once.level_map, once.display_map,
                                           current_tool, TRUE, mouse)
                IN  /\ PaintedAsClaimed(level_map, current_tool, mouse,
                                        once.level_map)
                    /\ ~InGrid(MouseMapX(mouse), MouseMapY(mouse), level_map)
                          => once.display_map = display_map
                    /\ twice = once)
    /\ [][ \A in \in EditorInputs :
            (in.pressed /\ EditorUpdateEditor(in.pressed, in.mouse)) =>
                /\ PaintedAsClaimed(level_map, current_tool, in.mouse,
                                    level_map')
                /\ current_tool' = current_tool ]_vars

\* The default map with the big pellet painted into cell (0, 0), and
\* nothing else changed in its first two rows.
C18_Witness ==
    /\ mode = "Editing"
    /\ current_tool = 3
    /\ Len(level_map) = DEFAULT_ROWS
    /\ level_map[1] = [c \in 1..DEFAULT_COLS |-> IF c = 1 THEN 3 ELSE 0]
    /\ level_map[2] = [c \in 1..DEFAULT_COLS |-> 0]

(***************************************************************************)
(* Further claims about the game                                           *)
(***************************************************************************)
\* C19: during gameplay the grid is read-only: no simulation tick and no
\* key event of the game changes level_map or display_map; in particular
\* no pellet is removed.
C19_GameMapsReadOnly ==
    [][UNCHANGED <<level_map, display_map>>]_vars

\* A tick has moved the player, away from the spawn, onto a tile that holds
\* a pellet, and the pellet is still there in both maps.
C19_Witness ==
    /\ ev.kind = "update"
    /\ ev.dt > 0
    /\ player.pos # start_pos
    /\ player.direction # "Stopped"
    /\ LET col == TileUnder(player.pos)[1]
           row == TileUnder(player.pos)[2]
       IN  /\ level_map[row + 1][col + 1] = 2
           /\ display_map[row + 1][col + 1] = 2
    /\ level_map = BuiltinLevel
    /\ display_map = game_display_map(BuiltinLevel)

\* C20: the game starts with direction Stopped, desired direction Stopped
\* and the player at the spawn coordinate; and as long as no direction key
\* event has occurred (the desired direction is still Stopped), every tick
\* leaves the position, the direction and the desired direction unchanged,
\* the player being at the spawn, Stopped.
C20_StartsAtRest ==
    /\ player.pos = start_pos
    /\ player.direction = "Stopped"
    /\ player.desired_direction = "Stopped"
    /\ [][ (player.desired_direction = "Stopped" /\ ev'.kind = "update") =>
            /\ player.pos = start_pos
            /\ player.direction = "Stopped"
            /\ player' = player ]_vars

\* A tick of positive length has passed before any direction key, and the
\* player is as it started.
C20_Witness ==
    /\ ev.kind = "update"
    /\ ev.dt > 0
    /\ player.desired_direction = "Stopped"
    /\ player.direction = "Stopped"
    /\ player.pos = start_pos

(***************************************************************************)
(* Claims about the grid of the programs                                   *)
(***************************************************************************)
\* C21: in every reachable state of the editor and of the game, all rows of
\* level_map have equal length, whatever level text was loaded and whatever
\* was painted.
C21_Rectangular ==
    \A r \in 1..Len(level_map) : Len(level_map[r]) = Len(level_map[1])

\* The editor has loaded the ragged text "#" / ".o", whose first line is
\* shorter than its second, and has painted a small pellet into cell (0, 0).
C21_Witness ==
    /\ mode = "Editing"
    /\ level_map = <<<<2, 0>>, <<2, 3>>>>

(***************************************************************************)
(* Claims about the modes of the editor                                    *)
(***************************************************************************)
\* C22: the editor starts in Menu.  In Menu mode a key event other than
\* Escape changes nothing (tool, grid and mode unchanged) and Escape goes to
\* Editing; in Editing mode Escape goes to Menu.  An update step in Menu
\* mode never paints a cell: a click on New Level gives the default map, a
\* click on Load Level the map of the file or the map as it was, and every
\* other step leaves the grid unchanged.  A click on New Level, Load Level
\* or Resume Editing moves to Editing; a click on Save Level, and a step
\* without a click, leaves mode and grid unchanged.
C22_ModeMachine ==
    /\ mode = "Menu"
    /\ [][ /\ \A keycode \in EditorKeys :
               (mode = "Menu" /\ EditorKeyDown(keycode)) =>
                   /\ UNCHANGED <<current_tool, level_map, display_map>>
                   /\ mode' = IF keycode = "Escape" THEN "Editing" ELSE "Menu"
           /\ (mode = "Editing" /\ EditorKeyDown("Escape")) => mode' = "Menu"
           /\ \A in \in MenuInputs(menu_options) :
               (mode = "Menu" /\ EditorUpdateMenu(in.pressed, in.mouse, in.over)) =>
                   LET clicked ==
                           IF in.pressed
                           THEN ClickedIndex(menu_options, in.mouse, in.over)
                           ELSE None
                   IN  CASE clicked = Some(0) ->
                                /\ mode' = "Editing"
                                /\ level_map' = create_default_map
                         [] clicked = Some(1) ->
                                /\ mode' = "Editing"
                                /\ level_map' =
                                       IF FileReads(file)
                                       THEN load_level_from_string(file.content)
                                       ELSE level_map
                         [] clicked = Some(3) ->
                                /\ mode' = "Editing"
                                /\ UNCHANGED <<level_map, display_map>>
                         [] OTHER ->
                                UNCHANGED <<mode, level_map, display_map>> ]_vars

\* Save Level has been clicked in the menu, on the map of the file "##" /
\* ".o" with its cell (0, 0) painted over: the file holds the painted map
\* and the editor is still in Menu mode.
C22_Witness ==
    /\ mode = "Menu"
    /\ menu_options = "laid out"
    /\ level_map = <<<<2, 1>>, <<2, 3>>>>
    /\ FileReads(file)
    /\ file.content = <<".", "#", "\n", ".", "o">>

(***************************************************************************)
(* The game left to itself                                                 *)
(*                                                                         *)
(* The game is driven with ticks of any length and keys while call.fn is   *)
(* "free"; then a tick length call.dt > 0 is fixed, and from there on the  *)
(* only events are ticks of that length, which the event loop keeps        *)
(* delivering (weak fairness of FixedUpdate).                              *)
(***************************************************************************)
SettleInit ==
    /\ level_map = BuiltinLevel
    /\ display_map = game_display_map(BuiltinLevel)
    /\ player = NewPlayer
    /\ call = [fn |-> "free"]
    /\ ev = NoValue
    /\ current_tool = NoValue
    /\ mode = NoValue
    /\ menu_options = NoValue
    /\ file = NoValue
    /\ content = NoValue

\* The maps and the player after a tick of length dt.
SettleTick(dt) ==
    /\ LET after == game_update(level_map, display_map, player, dt)
       IN  /\ level_map' = after.level_map
           /\ display_map' = after.display_map
           /\ player' = after.player
    /\ UNCHANGED <<ev, current_tool, mode, menu_options, file, content>>

FreeUpdate(dt) ==
    /\ call.fn = "free"
    /\ SettleTick(dt)
    /\ UNCHANGED call

FreeKeyDown(keycode) ==
    /\ call.fn = "free"
    /\ LET after == game_key_down_event(level_map, display_map, player, keycode)
       IN  /\ level_map' = after.level_map
           /\ display_map' = after.display_map
           /\ player' = after.player
    /\ UNCHANGED <<call, ev, current_tool, mode, menu_options, file, content>>

\* The first tick of the fixed length dt.
FirstFixedUpdate(dt) ==
    /\ call.fn = "free"
    /\ SettleTick(dt)
    /\ call' = [fn |-> "fixed", dt |-> dt]

FixedUpdate ==
    /\ call.fn = "fixed"
    /\ SettleTick(call.dt)
    /\ UNCHANGED call

SettleNext ==
    \/ \E dt \in Dts : FreeUpdate(dt)
    \/ \E keycode \in GameKeys : FreeKeyDown(keycode)
    \/ \E dt \in 1..MaxDt : FirstFixedUpdate(dt)
    \/ FixedUpdate

\* ENABLED <<FixedUpdate>>_vars as a state predicate: a tick of the fixed
\* length would change the player (it never changes anything else).
FixedUpdateEnabled ==
    /\ call.fn = "fixed"
    /\ update(player, level_map, call.dt) # player

\* The event loop keeps calling update: weak fairness of FixedUpdate, that is
\* WF_vars(FixedUpdate) with its ENABLED written as FixedUpdateEnabled.
SettleFairness ==
    \/ []<>(~FixedUpdateEnabled)
    \/ []<><<FixedUpdate>>_vars

SettleSpec == SettleInit /\ [][SettleNext]_vars /\ SettleFairness

\* C23: with a fixed positive tick length and no further key events, from
\* every reachable state of the game the player's direction eventually
\* becomes Stopped, and once a tick of that length has left it Stopped
\* neither the position nor the direction ever changes again.
C23_EventuallyStopped ==
    /\ [](call.fn = "fixed" => <>(player.direction = "Stopped"))
    /\ [][ (call.fn = "fixed" /\ player.direction = "Stopped")
            => player' = player ]_vars

\* With ticks of a fixed length the player has run west from the spawn
\* until a wall stopped it.
C23_Witness ==
    /\ call.fn = "fixed"
    /\ player.direction = "Stopped"
    /\ player.desired_direction = "West"
    /\ player.pos[1] < start_pos[1]
    /\ player.pos[2] = start_pos[2]


(***************************************************************************)
(* Claims about the path of a move                                         *)
(***************************************************************************)
\* The tiles, by floor division, that the bounding box centred on pos
\* overlaps (the box is one tile wide, so they are the tiles of its corners).
BoxTiles(pos) ==
    LET rect == PlayerRect(pos)
    IN  { FloorTile(x, y) : x \in {rect.x, rect.x + rect.w - 1},
                            y \in {rect.y, rect.y + rect.h - 1} }

\* The pixel positions of the straight segment from pos to next_pos (a move
\* is along one axis).
SegmentPoints(pos, next_pos) ==
    LET lo(a, b) == IF a <= b THEN a ELSE b
        hi(a, b) == IF a <= b THEN b ELSE a
    IN  { <<x, y>> : x \in lo(pos[1], next_pos[1])..hi(pos[1], next_pos[1]),
                     y \in lo(pos[2], next_pos[2])..hi(pos[2], next_pos[2]) }

\* Tile t is a wall tile of map.
IsWallTile(t, map) ==
    /\ InGrid(t[1], t[2], map)
    /\ map[t[2] + 1][t[1] + 1] = 1

\* C24 (as claimed): a tick of any length never carries the player across a
\* wall: at every point of the segment from the old to the new position,
\* no tile that the bounding box overlaps is a wall tile of level_map.
C24_NoWallCrossing ==
    [][ ev'.kind = "update" =>
            \A q \in SegmentPoints(player.pos, player'.pos) :
                \A t \in BoxTiles(q) : ~IsWallTile(t, level_map) ]_vars


(***************************************************************************)
(* Claims about the tile codes of the editor                               *)
(***************************************************************************)
\* The tile codes: empty, wall, small dot, big dot.
TileCodes == {0, 1, 2, 3}

\* C25: in every reachable state of the editor, every cell of level_map
\* holds one of the tile codes 0, 1, 2, 3, and current_tool is one of them.
C25_TileCodes ==
    /\ current_tool \in TileCodes
    /\ \A r \in 1..Len(level_map) :
          \A c \in 1..Len(level_map[r]) : level_map[r][c] \in TileCodes

\* The big-dot tool was selected and has painted cell (0, 0).
C25_Witness ==
    /\ mode = "Editing"
    /\ current_tool = 3
    /\ Len(level_map) > 0
    /\ Len(level_map[1]) > 0
    /\ level_map[1][1] = 3


(***************************************************************************)
(* Claims about the pointer and the drawn map                              *)
(***************************************************************************)
\* The pointer, scaled by 1 / MOUSE_SCALE, lies inside the square that
\* draw_editor draws for cell (c, r): [112 + 8c, 112 + 8c + 8) by
\* [40 + 8r, 40 + 8r + 8).
InDrawnSquare(mouse, c, r) ==
    LET left == MOUSE_SCALE * (MAP_OFFSET_X + c * TILE_SIZE)
        top == MOUSE_SCALE * (MAZE_OFFSET_Y + r * TILE_SIZE)
    IN  /\ left <= mouse[1] /\ mouse[1] < left + MOUSE_SCALE * TILE_SIZE
        /\ top <= mouse[2] /\ mouse[2] < top + MOUSE_SCALE * TILE_SIZE

\* C26 (as claimed): an update step in Editing mode with the button pressed
\* changes cell (c, r) only when the scaled pointer lies inside the drawn
\* square of that cell; so a press outside the drawn map, such as half a
\* tile left of it or above it, changes no cell.
C26_PaintsUnderPointer ==
    [][ \A in \in EditorInputs :
            (in.pressed /\ EditorUpdateEditor(in.pressed, in.mouse)) =>
                \A r \in 1..Len(level_map) :
                    \A c \in 1..Len(level_map[r]) :
                        level_map'[r][c] # level_map[r][c] =>
                            InDrawnSquare(in.mouse, c - 1, r - 1) ]_vars


(***************************************************************************)
(* Claims about the two copies of the grid functions                       *)
(***************************************************************************)
\* C27: on every grid whose rows all have equal length, zero rows and
\* zero-width rows included, is_wall_at of src/lib.rs and is_wall_at of
\* src/main.rs return the same result at every coordinate, and the display
\* map GameState::new computes equals the one update_display_map computes.
C27_CopiesAgree ==
    /\ (call.fn = "is_wall_at" /\ Rectangular(level_map)) =>
          /\ call.panics = {}
          /\ call.result = [a \in Coords \X Coords |->
                                game_is_wall_at(a[1], a[2], level_map)]
    /\ (call.fn = "main::is_wall_at" /\ Rectangular(level_map)) =>
          /\ call.panics = {}
          /\ call.result = [a \in Coords \X Coords |->
                                is_wall_at(a[1], a[2], level_map)]
    /\ (call.fn = "update_display_map" /\ Rectangular(level_map)) =>
          display_map = game_display_map(level_map)
    /\ call.fn = "main::display_map" =>
          display_map = update_display_map(level_map)

\* The game's is_wall_at has been applied to a full window of the built-in
\* level that holds a wall and a dot.
C27_Witness ==
    /\ call.fn = "main::is_wall_at"
    /\ Len(level_map) = WindowDim
    /\ \E r \in 1..Len(level_map) :
          \E c, d \in 1..Len(level_map[r]) :
              level_map[r][c] = 1 /\ level_map[r][d] = 2

=============================================================================
